---- MODULE Spec2Model ----
(***************************************************************************)
(* Model of image_to_rgb_array.py: an image is decoded into 8-bit RGB      *)
(* pixels, every pixel is packed into one RGB565 number, and the matrix    *)
(* of numbers is written to a file as a C array declaration.               *)
(*                                                                         *)
(* Text is modelled as a sequence of one-character strings, so that        *)
(* formatting (str, join, the fixed pieces of the declaration) is computed *)
(* character by character and can be parsed back.                          *)
(***************************************************************************)
EXTENDS Integers, Sequences, FiniteSets, TLC

VARIABLES
    pc,           \* position of the run in main / load_image_as_rgb / write_to_carray
    promotion,    \* scalar promotion rule of the installed numpy: "legacy" or "nep50"
    args,         \* result of parser.parse_args(): for each option, given or None
    im,           \* array returned by imageio.imread, or NoImage
    arr,          \* np.zeros((y_size, x_size), dtype=int) being filled
    i, j,         \* loop counters of load_image_as_rgb
    num_matrix,   \* parameter of write_to_carray
    wi, wj,       \* position of the nested row/cell loop of write_to_carray
    var_values,   \* list of str(cell) collected by write_to_carray
    fstate,       \* file object f: "untouched", "open" or "closed"
    disk,         \* the file at file_path: [exists, text]
    log,          \* tags of the messages logged / printed so far
    exit_status,  \* -1 while running, then the exit status of the process
    vec,          \* argument of a direct call of rgb_vec_to_num
    num,          \* value returned by that call (-1 before it)
    prev          \* value returned by an earlier call on the unmasked vector (-1: none)

vars == <<pc, promotion, args, im, arr, i, j, num_matrix, wi, wj, var_values,
          fstate, disk, log, exit_status, vec, num, prev>>

-----------------------------------------------------------------------------
(* Bounds of the model *)

\* largest image height (rows) the decoder returns in the model
MaxH == 2
\* largest image width (columns) the decoder returns in the model
MaxW == 2
\* stride of the channel values of the sampled cube of direct pack inputs
Stride == 37

-----------------------------------------------------------------------------
(* Integer arithmetic at the width numpy gives the operands *)

RECURSIVE Pow2(_)
Pow2(k) == IF k = 0 THEN 1 ELSE 2 * Pow2(k - 1)

\* bitwise AND of two naturals
RECURSIVE BitAnd(_, _)
BitAnd(a, b) ==
    IF a = 0 \/ b = 0 THEN 0
    ELSE (IF a % 2 = 1 /\ b % 2 = 1 THEN 1 ELSE 0) + 2 * BitAnd(a \div 2, b \div 2)

\* bitwise OR of two naturals
RECURSIVE BitOr(_, _)
BitOr(a, b) ==
    IF a = 0 THEN b
    ELSE IF b = 0 THEN a
    ELSE (IF a % 2 = 1 \/ b % 2 = 1 THEN 1 ELSE 0) + 2 * BitOr(a \div 2, b \div 2)

\* The decoder delivers numpy uint8 scalars.  `uint8 >> int` stays uint8 under
\* both promotion rules.  For `uint8 << int` and for `+` the result type is
\*   legacy (numpy 1.x, value of the Python int ignored between scalars):
\*       the default integer, a C long of 32 or 64 bits;
\*   nep50  (numpy 2.x, the Python int is weak): uint8.
\* A C long never wraps on the values that occur here (all below 2^17), so
\* its width is represented by 31 value bits.
ResultBits(p) == IF p = "nep50" THEN 8 ELSE 31

Wrap(x, bits) == IF bits >= 31 THEN x ELSE x % Pow2(bits)

\* x >> k on a non-negative value
Shr(x, k) == x \div Pow2(k)

\* x << k at the width of the result type
Shl(x, k, bits) == Wrap(x * Pow2(k), bits)

\* a + b at the width of the result type
Add(a, b, bits) == Wrap(a + b, bits)

\* rgb_vec_to_num with the red channel shifted by 2 instead of 3
rgb_vec_to_num_shift2(v, p) ==
    LET bits == ResultBits(p)
        r == Shr(v[1], 2)
        g == Shr(v[2], 2)
        b == Shr(v[3], 3)
    IN  Add(Add(Shl(r, 11, bits), Shl(g, 5, bits), bits), Shl(b, 0, bits), bits)

\* rgb_vec_to_num(vec): lines 55-60
rgb_vec_to_num(v, p) ==
    LET bits == ResultBits(p)
        r == Shr(v[1], 3)
        g == Shr(v[2], 2)
        b == Shr(v[3], 3)
    IN  Add(Add(Shl(r, 11, bits), Shl(g, 5, bits), bits), Shl(b, 0, bits), bits)

-----------------------------------------------------------------------------
(* Reference values the claims compare the code with *)

\* the RGB565 value of the specification, on unbounded integers
Pack565(v) == (v[1] \div 8) * 2048 + (v[2] \div 4) * 32 + (v[3] \div 8)

\* the specification's composition by bitwise OR
Pack565Or(v) == BitOr(BitOr((v[1] \div 8) * 2048, (v[2] \div 4) * 32), v[3] \div 8)

\* (r & 0xF8, g & 0xFC, b & 0xF8)
MaskLow(v) == <<BitAnd(v[1], 248), BitAnd(v[2], 252), BitAnd(v[3], 248)>>

\* unpacking of a packed value back to 8-bit channels
Unpack(p) == << BitAnd(Shr(p, 11), 31) * 8, BitAnd(Shr(p, 5), 63) * 4, BitAnd(p, 31) * 8 >>

-----------------------------------------------------------------------------
(* Text: sequences of one-character strings *)

Digits == <<"0", "1", "2", "3", "4", "5", "6", "7", "8", "9">>
DigitSet == {Digits[d] : d \in 1..10}
Whitespace == {" ", "\n", "\t"}

\* str(cell) of a non-negative integer: its decimal digits
RECURSIVE Str(_)
Str(n) == IF n < 10 THEN <<Digits[n + 1]>> ELSE Str(n \div 10) \o <<Digits[(n % 10) + 1]>>

\* sep.join(items) that also puts the separator after the last item
RECURSIVE JoinTrailing(_, _)
JoinTrailing(sep, items) ==
    IF items = <<>> THEN <<>>
    ELSE Head(items) \o sep \o JoinTrailing(sep, Tail(items))

\* sep.join(items): line 43
RECURSIVE Join(_, _)
Join(sep, items) ==
    IF items = <<>> THEN <<>>
    ELSE IF Len(items) = 1 THEN Head(items)
    ELSE Head(items) \o sep \o Join(sep, Tail(items))

\* "// Auto generated image header file\n": line 41
HeaderLine ==
    <<"/", "/", " ", "A", "u", "t", "o", " ", "g", "e", "n", "e", "r", "a", "t", "e", "d",
      " ", "i", "m", "a", "g", "e", " ", "h", "e", "a", "d", "e", "r", " ", "f", "i", "l",
      "e", "\n">>

\* "unsigned short int " + array_name + " [] = {\n\t": line 33
var_start(array_name) ==
    <<"u", "n", "s", "i", "g", "n", "e", "d", " ", "s", "h", "o", "r", "t", " ", "i", "n",
      "t", " ">> \o array_name \o <<" ", "[", "]", " ", "=", " ", "{", "\n", "\t">>

\* "};\n": line 34
var_end == <<"}", ";", "\n">>

\* ",\n\t": the separator of line 43
Separator == <<",", "\n", "\t">>

(* Reading a written declaration back *)

Positions(s, c) == {k \in 1..Len(s) : s[k] = c}
MinOf(S) == CHOOSE x \in S : \A y \in S : x <= y
MaxOf(S) == CHOOSE x \in S : \A y \in S : x >= y

HasBraces(text) ==
    /\ Positions(text, "{") # {}
    /\ Positions(text, "}") # {}
    /\ MinOf(Positions(text, "{")) < MaxOf(Positions(text, "}"))

\* the characters strictly between the opening and the closing brace
Body(text) ==
    SubSeq(text, MinOf(Positions(text, "{")) + 1, MaxOf(Positions(text, "}")) - 1)

\* s cut at every occurrence of the character c
RECURSIVE SplitOn(_, _)
SplitOn(s, c) ==
    IF Positions(s, c) = {} THEN <<s>>
    ELSE LET k == MinOf(Positions(s, c))
         IN  <<SubSeq(s, 1, k - 1)>> \o SplitOn(SubSeq(s, k + 1, Len(s)), c)

\* s without leading and trailing whitespace
RECURSIVE Strip(_)
Strip(s) ==
    IF s = <<>> THEN s
    ELSE IF s[1] \in Whitespace THEN Strip(Tail(s))
    ELSE IF s[Len(s)] \in Whitespace THEN Strip(SubSeq(s, 1, Len(s) - 1))
    ELSE s

IsNumeric(tok) == tok # <<>> /\ \A k \in 1..Len(tok) : tok[k] \in DigitSet

\* the entries of the array literal: the comma-separated items of the body,
\* none when the body holds only whitespace
Entries(text) ==
    LET items == SplitOn(Body(text), ",")
        toks  == [k \in 1..Len(items) |-> Strip(items[k])]
    IN  IF Len(toks) = 1 /\ toks[1] = <<>> THEN <<>> ELSE toks

-----------------------------------------------------------------------------
(* Inputs *)

\* largest value of an 8-bit channel
ChanMax == 255
Chan == 0..ChanMax

Promotions == {"legacy", "nep50"}

\* pixels the decoder returns in the model
PixelSamples == {<<255, 255, 255>>, <<0, 0, 0>>}
\* cells of a two-dimensional (single channel) image
GraySamples == {0, 255}

\* arrays imageio.imread may return: shape (H, W, 3), or (H, W) for gray
Images ==
    UNION {
        {[loaded |-> TRUE, gray |-> FALSE, shape |-> <<h, w>>, rows |-> rows] :
            rows \in [1..h -> [1..w -> PixelSamples]]}
        \cup
        {[loaded |-> TRUE, gray |-> TRUE, shape |-> <<h, w>>, rows |-> rows] :
            rows \in [1..h -> [1..w -> GraySamples]]}
        : h \in 0..MaxH, w \in 0..MaxW }

NoImage == [loaded |-> FALSE, gray |-> FALSE, shape |-> <<0, 0>>, rows |-> <<>>]

Given(value) == [given |-> TRUE, value |-> value]
None == [given |-> FALSE, value |-> <<>>]

ArrayName == <<"i", "m", "g">>
ImagePath == <<"a", ".", "p", "n", "g">>
FilePath == <<"a", ".", "h">>

\* what parse_args can return for the three options
ArgSets ==
    {[image_path |-> a, file_path |-> f, array_name |-> n] :
        a \in {None, Given(ImagePath)}, f \in {None, Given(FilePath)},
        n \in {None, Given(ArrayName)}}

\* the output file before the run: absent, or holding earlier content
AbsentFile == [exists |-> FALSE, text |-> <<>>]
OldFile == [exists |-> TRUE, text |-> <<"o", "l", "d", "\n">>]
InitialDisks == {AbsentFile, OldFile}

\* direct inputs of rgb_vec_to_num: every value of one channel with the other
\* two at an end of the range, and a strided cube
Corners == {0, ChanMax}
Grid == {c \in Chan : c % Stride = 0} \cup {ChanMax}
PackInputs ==
    (Chan \X Corners \X Corners) \cup (Corners \X Chan \X Corners)
    \cup (Corners \X Corners \X Chan) \cup (Grid \X Grid \X Grid)

-----------------------------------------------------------------------------
(* The run of main *)

Init ==
    /\ pc = "parse"
    /\ promotion \in Promotions
    /\ args \in ArgSets
    /\ im = NoImage
    /\ arr = <<>>
    /\ i = 0
    /\ j = 0
    /\ num_matrix = <<>>
    /\ wi = 0
    /\ wj = 0
    /\ var_values = <<>>
    /\ fstate = "untouched"
    /\ disk \in InitialDisks
    /\ log = <<>>
    /\ exit_status = -1
    /\ vec = <<0, 0, 0>>
    /\ num = -1
    /\ prev = -1

\* the condition of line 93 with `and` in place of `or`
ArgsMissingAll ==
    ~args.array_name.given /\ ~args.file_path.given /\ ~args.image_path.given

\* line 93: some option is None
ArgsMissing ==
    ~args.array_name.given \/ ~args.file_path.given \/ ~args.image_path.given

\* lines 93-96: error message, help, exit(1)
UsageError ==
    /\ pc = "parse"
    /\ ArgsMissing
    /\ log' = log \o <<"error_uh_oh", "help">>
    /\ exit_status' = 1
    /\ pc' = "exited"
    /\ UNCHANGED <<promotion, args, im, arr, i, j, num_matrix, wi, wj, var_values,
                   fstate, disk, vec, num, prev>>

\* lines 93, 98-101: all options given, main calls load_image_as_rgb
ArgsOk ==
    /\ pc = "parse"
    /\ ~ArgsMissing
    /\ pc' = "imread"
    /\ UNCHANGED <<promotion, args, im, arr, i, j, num_matrix, wi, wj, var_values,
                   fstate, disk, log, exit_status, vec, num, prev>>

\* an exception nobody catches: traceback, exit status 1
Crash ==
    /\ pc' = "crashed"
    /\ exit_status' = 1

\* line 68: imageio.imread raises (unreadable path, unsupported format)
ImReadFail ==
    /\ pc = "imread"
    /\ Crash
    /\ UNCHANGED <<promotion, args, im, arr, i, j, num_matrix, wi, wj, var_values,
                   fstate, disk, log, vec, num, prev>>

\* line 68 preceded by an open of the output file
ImReadAfterOpen ==
    /\ pc = "imread"
    /\ \E image \in Images : im' = image
    /\ fstate' = "open"
    /\ disk' = [exists |-> TRUE, text |-> <<>>]
    /\ pc' = "alloc"
    /\ UNCHANGED <<promotion, args, arr, i, j, num_matrix, wi, wj, var_values,
                   log, exit_status, vec, num, prev>>

\* line 68: imageio.imread returns the decoded array
ImRead ==
    /\ pc = "imread"
    /\ \E image \in Images : im' = image
    /\ pc' = "alloc"
    /\ UNCHANGED <<promotion, args, arr, i, j, num_matrix, wi, wj, var_values,
                   fstate, disk, log, exit_status, vec, num, prev>>

\* lines 69-75: sizes, log message, np.zeros, i = 0, j = 0
AllocArr ==
    /\ pc = "alloc"
    /\ log' = Append(log, "info_dimensions")
    /\ arr' = [y \in 1..im.shape[1] |-> [x \in 1..im.shape[2] |-> 0]]
    /\ i' = 0
    /\ j' = 0
    /\ pc' = "pack"
    /\ UNCHANGED <<promotion, args, im, num_matrix, wi, wj, var_values,
                   fstate, disk, exit_status, vec, num, prev>>

\* lines 76-78: arr[i,j] = rgb_vec_to_num(vec); j = j + 1
PackCell ==
    /\ pc = "pack"
    /\ i < Len(im.rows)
    /\ j < Len(im.rows[i + 1])
    /\ ~im.gray
    /\ arr' = [arr EXCEPT ![i + 1][j + 1] = rgb_vec_to_num(im.rows[i + 1][j + 1], promotion)]
    /\ j' = j + 1
    /\ UNCHANGED <<pc, promotion, args, im, i, num_matrix, wi, wj, var_values,
                   fstate, disk, log, exit_status, vec, num, prev>>

\* lines 77, 55: on a two-dimensional image vec is a scalar and vec[0] raises
PackCellFail ==
    /\ pc = "pack"
    /\ i < Len(im.rows)
    /\ j < Len(im.rows[i + 1])
    /\ im.gray
    /\ Crash
    /\ UNCHANGED <<promotion, args, im, arr, i, j, num_matrix, wi, wj, var_values,
                   fstate, disk, log, vec, num, prev>>

\* lines 79, 74-75: the row is exhausted; i = i + 1, next row, j = 0
NextRow ==
    /\ pc = "pack"
    /\ i < Len(im.rows)
    /\ j = Len(im.rows[i + 1])
    /\ i' = i + 1
    /\ j' = 0
    /\ UNCHANGED <<pc, promotion, args, im, arr, num_matrix, wi, wj, var_values,
                   fstate, disk, log, exit_status, vec, num, prev>>

\* lines 80, 101-102, 33-35: return arr; main calls write_to_carray(arr, ...)
ReturnArr ==
    /\ pc = "pack"
    /\ i = Len(im.rows)
    /\ num_matrix' = arr
    /\ var_values' = <<>>
    /\ wi' = 0
    /\ wj' = 0
    /\ pc' = "collect"
    /\ UNCHANGED <<promotion, args, im, arr, i, j, fstate, disk, log, exit_status,
                   vec, num, prev>>

\* lines 37-38 skipping the last cell of every row
CollectCellSkipLast ==
    /\ pc = "collect"
    /\ wi < Len(num_matrix)
    /\ wj < Len(num_matrix[wi + 1])
    /\ var_values' = IF wj + 1 = Len(num_matrix[wi + 1]) /\ wj > 0
                     THEN var_values
                     ELSE Append(var_values, Str(num_matrix[wi + 1][wj + 1]))
    /\ wj' = wj + 1
    /\ UNCHANGED <<pc, promotion, args, im, arr, i, j, num_matrix, wi,
                   fstate, disk, log, exit_status, vec, num, prev>>

\* lines 37-38: var_values.append(str(cell))
CollectCell ==
    /\ pc = "collect"
    /\ wi < Len(num_matrix)
    /\ wj < Len(num_matrix[wi + 1])
    /\ var_values' = Append(var_values, Str(num_matrix[wi + 1][wj + 1]))
    /\ wj' = wj + 1
    /\ UNCHANGED <<pc, promotion, args, im, arr, i, j, num_matrix, wi,
                   fstate, disk, log, exit_status, vec, num, prev>>

\* line 36: the row is exhausted, the outer loop takes the next row
CollectNextRow ==
    /\ pc = "collect"
    /\ wi < Len(num_matrix)
    /\ wj = Len(num_matrix[wi + 1])
    /\ wi' = wi + 1
    /\ wj' = 0
    /\ UNCHANGED <<pc, promotion, args, im, arr, i, j, num_matrix, var_values,
                   fstate, disk, log, exit_status, vec, num, prev>>

\* line 40: open(file_path, "w") creates or truncates the file
OpenFile ==
    /\ pc = "collect"
    /\ wi = Len(num_matrix)
    /\ fstate' = "open"
    /\ disk' = [exists |-> TRUE, text |-> <<>>]
    /\ pc' = "write_header"
    /\ UNCHANGED <<promotion, args, im, arr, i, j, num_matrix, wi, wj, var_values,
                   log, exit_status, vec, num, prev>>

\* line 40: open raises (path not writable); the file is left as it was
OpenFail ==
    /\ pc = "collect"
    /\ wi = Len(num_matrix)
    /\ Crash
    /\ UNCHANGED <<promotion, args, im, arr, i, j, num_matrix, wi, wj, var_values,
                   fstate, disk, log, vec, num, prev>>

FWrite(text) == disk' = [disk EXCEPT !.text = @ \o text]

\* line 41
WriteHeader ==
    /\ pc = "write_header"
    /\ FWrite(HeaderLine)
    /\ pc' = "write_start"
    /\ UNCHANGED <<promotion, args, im, arr, i, j, num_matrix, wi, wj, var_values,
                   fstate, log, exit_status, vec, num, prev>>

\* line 42
WriteStart ==
    /\ pc = "write_start"
    /\ FWrite(var_start(args.array_name.value))
    /\ pc' = "write_values"
    /\ UNCHANGED <<promotion, args, im, arr, i, j, num_matrix, wi, wj, var_values,
                   fstate, log, exit_status, vec, num, prev>>

\* line 43 writing a single 0 when there is no value to join
WriteValuesPadded ==
    /\ pc = "write_values"
    /\ FWrite(Join(Separator, IF var_values = <<>> THEN <<Str(0)>> ELSE var_values)
              \o <<"\n">>)
    /\ pc' = "write_end"
    /\ UNCHANGED <<promotion, args, im, arr, i, j, num_matrix, wi, wj, var_values,
                   fstate, log, exit_status, vec, num, prev>>

\* line 43: f.write(",\n\t".join(var_values) + "\n")
WriteValues ==
    /\ pc = "write_values"
    /\ FWrite(Join(Separator, var_values) \o <<"\n">>)
    /\ pc' = "write_end"
    /\ UNCHANGED <<promotion, args, im, arr, i, j, num_matrix, wi, wj, var_values,
                   fstate, log, exit_status, vec, num, prev>>

\* line 44
WriteEnd ==
    /\ pc = "write_end"
    /\ FWrite(var_end)
    /\ pc' = "close"
    /\ UNCHANGED <<promotion, args, im, arr, i, j, num_matrix, wi, wj, var_values,
                   fstate, log, exit_status, vec, num, prev>>

WritePcs == {"write_header", "write_start", "write_values", "write_end"}

\* lines 41-44: a write raises (device full, I/O error)
WriteFail ==
    /\ pc \in WritePcs
    /\ Crash
    /\ UNCHANGED <<promotion, args, im, arr, i, j, num_matrix, wi, wj, var_values,
                   fstate, disk, log, vec, num, prev>>

\* line 45
CloseFile ==
    /\ pc = "close"
    /\ fstate' = "closed"
    /\ pc' = "log_wrote"
    /\ UNCHANGED <<promotion, args, im, arr, i, j, num_matrix, wi, wj, var_values,
                   disk, log, exit_status, vec, num, prev>>

\* line 103 and the end of main: success message, exit status 0
LogWrote ==
    /\ pc = "log_wrote"
    /\ log' = Append(log, "info_wrote")
    /\ exit_status' = 0
    /\ pc' = "done"
    /\ UNCHANGED <<promotion, args, im, arr, i, j, num_matrix, wi, wj, var_values,
                   fstate, disk, vec, num, prev>>

Next ==
    \/ UsageError
    \/ ArgsOk
    \/ ImReadFail
    \/ ImRead
    \/ AllocArr
    \/ PackCell
    \/ PackCellFail
    \/ NextRow
    \/ ReturnArr
    \/ CollectCell
    \/ CollectNextRow
    \/ OpenFile
    \/ OpenFail
    \/ WriteHeader
    \/ WriteStart
    \/ WriteValues
    \/ WriteEnd
    \/ WriteFail
    \/ CloseFile
    \/ LogWrote

Spec == Init /\ [][Next]_vars

-----------------------------------------------------------------------------
(* Direct calls of rgb_vec_to_num on 8-bit triples *)

InitPack ==
    /\ pc = "pack_call"
    /\ promotion \in Promotions
    /\ vec \in PackInputs
    /\ num = -1
    /\ prev = -1
    /\ args = [image_path |-> None, file_path |-> None, array_name |-> None]
    /\ im = NoImage
    /\ arr = <<>>
    /\ i = 0
    /\ j = 0
    /\ num_matrix = <<>>
    /\ wi = 0
    /\ wj = 0
    /\ var_values = <<>>
    /\ fstate = "untouched"
    /\ disk = AbsentFile
    /\ log = <<>>
    /\ exit_status = -1

\* num = rgb_vec_to_num(vec)
PackCall ==
    /\ pc = "pack_call"
    /\ num' = rgb_vec_to_num(vec, promotion)
    /\ pc' = "pack_ret"
    /\ UNCHANGED <<promotion, args, im, arr, i, j, num_matrix, wi, wj, var_values,
                   fstate, disk, log, exit_status, vec, prev>>

\* the caller clears the low bits of the channels and packs again
Requantize ==
    /\ pc = "pack_ret"
    /\ prev = -1
    /\ prev' = num
    /\ vec' = MaskLow(vec)
    /\ pc' = "pack_call"
    /\ UNCHANGED <<promotion, args, im, arr, i, j, num_matrix, wi, wj, var_values,
                   fstate, disk, log, exit_status, num>>

NextPack ==
    \/ PackCall
    \/ Requantize

SpecPack == InitPack /\ [][NextPack]_vars

-----------------------------------------------------------------------------
(* Properties *)

Height == im.shape[1]
Width == im.shape[2]
NonEmptyImage == im.loaded /\ Height >= 1 /\ Width >= 1

\* the whole text write_to_carray is to produce for the collected values
FullText ==
    HeaderLine \o var_start(args.array_name.value)
    \o Join(Separator, var_values) \o <<"\n">> \o var_end

\* C1: for every 8-bit triple the value returned by rgb_vec_to_num is
\* (r div 8) * 2048 + (g div 4) * 32 + (b div 8), which is also the bitwise OR
\* of the three shifted fields.
C1_PackEqualsReference ==
    pc = "pack_ret" => (num = Pack565(vec) /\ num = Pack565Or(vec))

\* C2: for an image of height H >= 1 and width W >= 1 the entry at linear
\* index i*W + j of the written array is the decimal form of the RGB565 value
\* of the source pixel at row i, column j.
C2_RowMajorEntries ==
    (pc = "done" /\ NonEmptyImage) =>
        LET e == Entries(disk.text)
        IN  /\ Len(e) = Height * Width
            /\ \A y \in 0..(Height - 1) : \A x \in 0..(Width - 1) :
                  e[y * Width + x + 1] = Str(Pack565(im.rows[y + 1][x + 1]))

\* C3: at every point of the nested row/cell loop of write_to_carray the
\* number of collected entries equals the number of cells visited so far, and
\* the written declaration of an H x W matrix (H, W >= 1) holds exactly H * W
\* numeric entries.
C3_EntryCount ==
    /\ pc = "collect" => Len(var_values) = wi * Width + wj
    /\ (pc \in WritePcs \/ pc \in {"close", "log_wrote", "done"}) =>
            Len(var_values) = Height * Width
    /\ (fstate = "closed" /\ NonEmptyImage) =>
            /\ HasBraces(disk.text)
            /\ Len(Entries(disk.text)) = Height * Width
            /\ \A k \in 1..Len(Entries(disk.text)) : IsNumeric(Entries(disk.text)[k])

C3_Witness ==
    fstate = "closed" /\ im.shape = <<2, 2>> /\ Len(Entries(disk.text)) = 4

\* C4: the packed value of every pixel delivered by the decoder lies in
\* 0..65535 and carries the red field r >> 3 in bits 15-11 and the green field
\* g >> 2 in bits 10-5 in full: the shifted fields are not wrapped to 8 bits.
C4_FullWidth ==
    (pc = "collect" /\ im.loaded) =>
        \A y \in 1..Height : \A x \in 1..Width :
            /\ num_matrix[y][x] \in 0..65535
            /\ num_matrix[y][x] \div 2048 = im.rows[y][x][1] \div 8
            /\ (num_matrix[y][x] \div 32) % 64 = im.rows[y][x][2] \div 4

\* C5: packing (r & 0xF8, g & 0xFC, b & 0xF8) gives the same value as packing
\* (r, g, b).
C5_QuantizationIdempotent ==
    (pc = "pack_ret" /\ prev # -1) => num = prev

C5_Witness ==
    /\ pc = "pack_ret"
    /\ promotion = "legacy"
    /\ vec = <<248, 252, 248>>
    /\ prev = 65535
    /\ num = 65535

\* C6: unpacking the packed value gives channels r', g', b' with
\* 0 <= r - r' <= 7, 0 <= g - g' <= 3 and 0 <= b - b' <= 7.
C6_RoundTripLoss ==
    pc = "pack_ret" =>
        LET u == Unpack(num)
        IN  /\ 0 <= vec[1] - u[1] /\ vec[1] - u[1] <= 7
            /\ 0 <= vec[2] - u[2] /\ vec[2] - u[2] <= 3
            /\ 0 <= vec[3] - u[3] /\ vec[3] - u[3] <= 7

\* the positions of the array body where an entry ends: a digit that no
\* digit follows
EntryEnds(b) ==
    {k \in 1..Len(b) : b[k] \in DigitSet /\ (k = Len(b) \/ b[k + 1] \notin DigitSet)}

\* C7: in the text written for a non-empty matrix every entry except the last
\* is immediately followed by a comma and no comma follows the last entry; a
\* 1x1 matrix gives one entry and no comma between the braces.
C7_CommaPlacement ==
    (fstate = "closed" /\ NonEmptyImage) =>
        LET b == Body(disk.text)
            ends == EntryEnds(b)
        IN  /\ Cardinality(ends) = Height * Width
            /\ \A k \in ends :
                  IF k = MaxOf(ends)
                  THEN \A m \in (k + 1)..Len(b) : b[m] # ","
                  ELSE b[k + 1] = ","
            /\ Cardinality(Positions(b, ",")) = Height * Width - 1
            /\ (im.shape = <<1, 1>>) => Positions(b, ",") = {}

C7_Witness ==
    /\ fstate = "closed"
    /\ im.shape = <<2, 2>>
    /\ Cardinality(Positions(Body(disk.text), ",")) = 3

\* C8: for an image of 0 rows a run that completes has written a declaration
\* whose array body is empty: no entry, nothing but whitespace between the
\* braces.
C8_EmptyImageEmptyBody ==
    (pc = "done" /\ im.loaded /\ Height = 0) =>
        /\ fstate = "closed"
        /\ disk.text = FullText
        /\ HasBraces(disk.text)
        /\ Entries(disk.text) = <<>>
        /\ \A k \in 1..Len(Body(disk.text)) : Body(disk.text)[k] \in Whitespace

C8_Witness ==
    /\ pc = "done"
    /\ im.loaded
    /\ Height = 0
    /\ Body(disk.text) = <<"\n", "\t", "\n">>

AnyArgNone == \E k \in {"image_path", "file_path", "array_name"} : ~args[k].given

\* C9: when any of the three parameters is absent main prints help and exits
\* with a non-zero status, the image is never read and the output file is
\* never opened or modified.
C9_UsageError ==
    AnyArgNone =>
        /\ pc \in {"parse", "exited"}
        /\ ~im.loaded
        /\ fstate = "untouched"
        /\ disk \in InitialDisks
        /\ pc = "exited" =>
              /\ exit_status # 0 /\ exit_status # -1
              /\ log = <<"error_uh_oh", "help">>

C9_Witness ==
    /\ pc = "exited"
    /\ exit_status = 1
    /\ ~args.array_name.given
    /\ args.image_path.given
    /\ args.file_path.given

\* every cell of the image has been packed and the matrix handed over
MatrixBuilt ==
    /\ im.loaded
    /\ i = Len(im.rows)
    /\ num_matrix = arr
    /\ \A y \in 1..Height : \A x \in 1..Width :
          arr[y][x] = rgb_vec_to_num(im.rows[y][x], promotion)

\* C10: the output file is opened only after the whole matrix has been built;
\* a run that fails in decoding or packing leaves the file unopened and as it
\* was; the success message is logged only after the file has been fully
\* written and closed.
C10_StepOrder ==
    /\ fstate # "untouched" => MatrixBuilt
    /\ fstate = "untouched" => disk \in InitialDisks
    /\ (pc = "crashed" /\ ~MatrixBuilt) => (fstate = "untouched" /\ disk \in InitialDisks)
    /\ (\E k \in 1..Len(log) : log[k] = "info_wrote") =>
            (fstate = "closed" /\ disk.exists /\ disk.text = FullText)

C10_Witness ==
    /\ pc = "done"
    /\ fstate = "closed"
    /\ im.shape = <<2, 2>>
    /\ log = <<"info_dimensions", "info_wrote">>

====
